---------------------------- MODULE Spec2Model ----------------------------
(***************************************************************************)
(* Session / certificate state engine of the SOAP services                 *)
(* (app/soap/auth_service.py, app/soap/competition_service.py).            *)
(*                                                                         *)
(* Every inbound request is a process that runs one endpoint handler.  The *)
(* handler's storage calls are the points where requests interleave; the   *)
(* storage collaborator (app.db.crud), the response models of the          *)
(* competition service, the envelope codec and the match report codec are  *)
(* not part of the source tree and are modelled from their specification.  *)
(***************************************************************************)
EXTENDS Integers, Sequences, FiniteSets, TLC

VARIABLES
    certs,      \* certificate table: id -> [certificate_data, available]
    sessions,   \* competition session table, rows in order of creation
    reports,    \* stored match results, one row per csid
    now,        \* wall clock, in ticks: the latest reading of datetime.utcnow()
    pc,         \* per request process: position in its handler
    req,        \* per request process: the request being handled
    loc,        \* per request process: the handler's local variables
    resp,       \* per request process: the response returned
    dbOpen,     \* per request process: storage sessions opened and not closed
    started,    \* number of requests received so far
    handed,     \* history: certificate id -> number of responses that carried it
    issued      \* history: csid/ccid pairs returned by CreateSession, in order

vars == <<certs, sessions, reports, now, pc, req, loc, resp, dbOpen, started,
          handed, issued>>

----------------------------------------------------------------------------
(* Bounds of the model *)

NumProcs == 2
MaxReqs == 3
MaxSessions == 2
NumCerts == 2
MaxTime == 2

Procs == 1..NumProcs
CertIds == 1..NumCerts

----------------------------------------------------------------------------
(* Program constants *)

CERT_EXPIRY_SECONDS == 180

PLACEHOLDER_CERTIFICATE == "PLACEHOLDER_CERTIFICATE"

\* datetime.utcnow() is finer than the %S of the expiry format
TicksPerSecond == 2

\* Python's None
None == "None"

----------------------------------------------------------------------------
(* Text: header values, tag names and field texts are sequences of         *)
(* characters, so that substring tests and int() are computed              *)

LOGIN_REMOTE_AUTH ==
    <<"L","o","g","i","n","R","e","m","o","t","e","A","u","t","h">>
CREATE_SESSION ==
    <<"C","r","e","a","t","e","S","e","s","s","i","o","n">>
SET_REPORT_INTENTION ==
    <<"S","e","t","R","e","p","o","r","t","I","n","t","e","n","t","i","o","n">>
SUBMIT_REPORT ==
    <<"S","u","b","m","i","t","R","e","p","o","r","t">>

\* Python: needle in hay
Contains(needle, hay) ==
    \E i \in 0..(Len(hay) - Len(needle)) :
        SubSeq(hay, i + 1, i + Len(needle)) = needle

\* Python: s.strip('"')
RECURSIVE StripLeft(_)
StripLeft(s) ==
    IF s # <<>> /\ Head(s) = "\"" THEN StripLeft(Tail(s)) ELSE s

RECURSIVE StripRight(_)
StripRight(s) ==
    IF s # <<>> /\ s[Len(s)] = "\"" THEN StripRight(SubSeq(s, 1, Len(s) - 1)) ELSE s

StripQuotes(s) == StripRight(StripLeft(s))

DigitChars == <<"0","1","2","3","4","5","6","7","8","9">>

IsDigit(c) == \E d \in 1..10 : DigitChars[d] = c

DigitVal(c) == (CHOOSE d \in 1..10 : DigitChars[d] = c) - 1

\* Python int(s) raises ValueError unless s is an optionally signed run of digits
IsIntText(s) ==
    LET body == IF s # <<>> /\ Head(s) \in {"+", "-"} THEN Tail(s) ELSE s
    IN  body # <<>> /\ \A i \in 1..Len(body) : IsDigit(body[i])

RECURSIVE DigitsValue(_)
DigitsValue(s) ==
    IF s = <<>> THEN 0
    ELSE 10 * DigitsValue(SubSeq(s, 1, Len(s) - 1)) + DigitVal(s[Len(s)])

\* Python int(s), for s with IsIntText(s)
ParseInt(s) ==
    IF Head(s) = "-" THEN 0 - DigitsValue(Tail(s))
    ELSE IF Head(s) = "+" THEN DigitsValue(Tail(s))
    ELSE DigitsValue(s)

----------------------------------------------------------------------------
(* Responses *)

NoResp ==
    [status |-> 0, tag |-> "none", result |-> None, csid |-> None,
     ccid |-> None, certificate |-> None, expiry |-> -1, faultstring |-> None]

\* Response(content=..., media_type=...) : the default transport status
Ok(model) == [model EXCEPT !.status = 200]

\* LoginRemoteAuthResponse(result=..., certificate=None, expiry=None)
LoginRemoteAuthResponse(result) ==
    [NoResp EXCEPT !.tag = "LoginRemoteAuthResponse", !.result = result]

LoginRemoteAuthResponse_success(certificate, expiry) ==
    [LoginRemoteAuthResponse("Success") EXCEPT
        !.certificate = certificate, !.expiry = expiry]

CreateSessionResponse_success(csid, ccid) ==
    [NoResp EXCEPT !.tag = "CreateSessionResponse", !.result = "Success",
                   !.csid = csid, !.ccid = ccid]

SetReportIntentionResponse_success(csid, ccid) ==
    [NoResp EXCEPT !.tag = "SetReportIntentionResponse", !.result = "Success",
                   !.csid = csid, !.ccid = ccid]

SetReportIntentionResponse_error ==
    [NoResp EXCEPT !.tag = "SetReportIntentionResponse", !.result = "Error"]

SubmitReportResponse_success ==
    [NoResp EXCEPT !.tag = "SubmitReportResponse", !.result = "Success"]

\* as Fault, without the status_code argument of the Response
Fault_defaultStatus(message) ==
    [NoResp EXCEPT !.status = 200, !.tag = "Fault", !.faultstring = message]

\* except Exception as e: create_soap_fault(str(e)), status_code=500
Fault(message) ==
    [NoResp EXCEPT !.status = 500, !.tag = "Fault", !.faultstring = message]

----------------------------------------------------------------------------
(* Expiry *)

\* strftime("%Y-%m-%dT%H:%M:%SZ"): the time cut to whole seconds
Strftime(t) == t \div TicksPerSecond

\* as ExpiryTime, with the constant taken as minutes
ExpiryTime_minutes(t) == t + CERT_EXPIRY_SECONDS * 60 * TicksPerSecond

\* datetime.utcnow() + timedelta(seconds=CERT_EXPIRY_SECONDS)
ExpiryTime(t) == t + CERT_EXPIRY_SECONDS * TicksPerSecond

----------------------------------------------------------------------------
(* Match report codec (app.models.match_report): positional decode of the  *)
(* raw report.  Header: six little-endian 16-bit fields (protocol version, *)
(* developer version, game status, flags, player count, team count); then  *)
(* player_count records of PLAYER_SIZE bytes (persona id, faction, winner  *)
(* flag); then two length-prefixed strings (map path, replay guid).        *)
(* Trailing bytes are ignored.                                             *)

MIN_HEADER == 12

PLAYER_SIZE == 3

U16(b, off) == b[off + 1] + 256 * b[off + 2]

PlayerAt(b, off) ==
    [full_id |-> <<b[off + 1]>>, persona_id |-> b[off + 1],
     faction |-> b[off + 2], is_winner |-> (b[off + 3] % 2 = 1)]

\* MatchReport.from_bytes: [ok |-> FALSE] stands for a raised exception
MatchReport_from_bytes(b) ==
    IF Len(b) < MIN_HEADER THEN [ok |-> FALSE]
    ELSE
      LET n       == U16(b, 8)
          mapOff  == MIN_HEADER + n * PLAYER_SIZE
          mapLen  == IF Len(b) > mapOff THEN b[mapOff + 1] ELSE -1
          guidOff == mapOff + 1 + mapLen
          guidLen == IF mapLen >= 0 /\ Len(b) > guidOff THEN b[guidOff + 1] ELSE -1
      IN  IF mapLen < 0 \/ guidLen < 0 \/ Len(b) < guidOff + 1 + guidLen
          THEN [ok |-> FALSE]
          ELSE [ok |-> TRUE,
                protocol_version |-> U16(b, 0),
                developer_version |-> U16(b, 2),
                game_status |-> U16(b, 4),
                flags |-> U16(b, 6),
                player_count |-> n,
                team_count |-> U16(b, 10),
                players |-> [i \in 1..n |-> PlayerAt(b, MIN_HEADER + (i - 1) * PLAYER_SIZE)],
                map_path |-> SubSeq(b, mapOff + 2, mapOff + 1 + mapLen),
                replay_guid |-> SubSeq(b, guidOff + 2, guidOff + 1 + guidLen)]

get_player_list(report) == report.players

\* low bits of the flags field select the base game type
get_game_type(report) == report.flags % 4

is_auto_match(report) == (report.flags \div 4) % 2 = 1

RECURSIVE IdsWhere(_, _)
IdsWhere(players, won) ==
    IF players = <<>> THEN <<>>
    ELSE (IF Head(players).is_winner = won THEN <<Head(players).persona_id>> ELSE <<>>)
         \o IdsWhere(Tail(players), won)

get_winner_id_list(report) == IdsWhere(report.players, TRUE)

get_loser_id_list(report) == IdsWhere(report.players, FALSE)

\* handle_submit_report, lines 223-266: the report is not empty and its
\* parse raises
DecodeFails(raw_report) ==
    raw_report # <<>> /\ ~MatchReport_from_bytes(raw_report).ok

\* report_data: dict = {}
EmptyDict == [k \in {} |-> 0]

\* as ParseReportData, with the fields assigned one after another: a parse
\* that raises leaves the fields assigned before it
ParseReportData_partial(raw_report) ==
    IF raw_report = <<>> THEN EmptyDict
    ELSE LET report == MatchReport_from_bytes(raw_report)
         IN  IF ~report.ok THEN [game_type |-> 0, player_count |-> 0]
             ELSE LET player_list == get_player_list(report)
                  IN  [game_type |-> get_game_type(report),
                       map_path |-> report.map_path,
                       replay_guid |-> report.replay_guid,
                       is_auto_match |-> is_auto_match(report),
                       player_count |-> Len(player_list),
                       players |-> [i \in 1..Len(player_list) |->
                                      [persona_id |-> player_list[i].persona_id,
                                       faction |-> player_list[i].faction,
                                       is_winner |-> player_list[i].is_winner]],
                       winner_ids |-> get_winner_id_list(report),
                       loser_ids |-> get_loser_id_list(report)]

\* as ParseReportData, with the two id lists taken from each other's accessor
ParseReportData_swapped(raw_report) ==
    IF raw_report = <<>> THEN EmptyDict
    ELSE LET report == MatchReport_from_bytes(raw_report)
         IN  IF ~report.ok THEN EmptyDict
             ELSE LET player_list == get_player_list(report)
                  IN  [game_type |-> get_game_type(report),
                       map_path |-> report.map_path,
                       replay_guid |-> report.replay_guid,
                       is_auto_match |-> is_auto_match(report),
                       player_count |-> Len(player_list),
                       players |-> [i \in 1..Len(player_list) |->
                                      [persona_id |-> player_list[i].persona_id,
                                       faction |-> player_list[i].faction,
                                       is_winner |-> player_list[i].is_winner]],
                       winner_ids |-> get_loser_id_list(report),
                       loser_ids |-> get_winner_id_list(report)]

\* handle_submit_report, lines 219-266: report_data is assigned once, after
\* every accessor has returned; any exception leaves it {}
ParseReportData(raw_report) ==
    IF raw_report = <<>> THEN EmptyDict
    ELSE LET report == MatchReport_from_bytes(raw_report)
         IN  IF ~report.ok THEN EmptyDict
             ELSE LET player_list == get_player_list(report)
                  IN  [game_type |-> get_game_type(report),
                       map_path |-> report.map_path,
                       replay_guid |-> report.replay_guid,
                       is_auto_match |-> is_auto_match(report),
                       player_count |-> Len(player_list),
                       players |-> [i \in 1..Len(player_list) |->
                                      [persona_id |-> player_list[i].persona_id,
                                       faction |-> player_list[i].faction,
                                       is_winner |-> player_list[i].is_winner]],
                       winner_ids |-> get_winner_id_list(report),
                       loser_ids |-> get_loser_id_list(report)]

\* Raw reports a client may send
RawEmpty == <<>>
RawShort == <<1, 0, 0>>
RawGoodA == <<1, 0, 0, 0, 0, 0, 5, 0, 2, 0, 2, 0,  11, 1, 1,  12, 2, 0,  1, 77,  1, 99>>
RawGoodB == <<1, 0, 0, 0, 0, 0, 0, 0, 1, 0, 1, 0,  13, 3, 1,  1, 78,  0>>
RawTrunc == <<1, 0, 0, 0, 0, 0, 5, 0, 2, 0, 2, 0,  11, 1, 1>>

RawReports == {RawEmpty, RawShort, RawGoodA, RawGoodB, RawTrunc}

----------------------------------------------------------------------------
(* Storage collaborator (app.db.crud, app.db.database).  Every call is one *)
(* atomic step on the tables.                                              *)

CertData(c) == "cert-" \o DigitChars[c + 1]

CsidText(n) == "cs" \o DigitChars[n + 1]

CcidText(n) == "cc" \o DigitChars[n + 1]

\* rows get_available_certificate may pick: any row marked available
AvailableCerts(table) == {c \in CertIds : table[c].available}

\* get_available_certificate marks the row it returns unavailable
MarkUnavailable(table, c) == [table EXCEPT ![c].available = FALSE]

\* create_competition_session: a new row with a fresh csid/ccid pair
create_competition_session(table, profile_id) ==
    Append(table, [csid |-> CsidText(Len(table) + 1),
                   ccid |-> CcidText(Len(table) + 1),
                   profile_id |-> profile_id,
                   state |-> "Created"])

SessionRows(table, csid) == {i \in DOMAIN table : table[i].csid = csid}

\* set_report_intention(session, csid, profile_id): the returned success flag
set_report_intention_found(table, csid) == SessionRows(table, csid) # {}

\* as set_report_intention, writing the state whatever it was
set_report_intention_overwrites(table, csid, profile_id) ==
    [i \in DOMAIN table |->
        IF table[i].csid = csid
        THEN [table[i] EXCEPT !.state = "IntentionSet"]
        ELSE table[i]]

\* set_report_intention(session, csid, profile_id): the table it leaves
set_report_intention(table, csid, profile_id) ==
    [i \in DOMAIN table |->
        IF table[i].csid = csid /\ table[i].state = "Created"
        THEN [table[i] EXCEPT !.state = "IntentionSet"]
        ELSE table[i]]

\* submit_match_report: the results stored for csid, replacing earlier ones
submit_match_report(table, csid, ccid, profile_id, report_data) ==
    {r \in table : r.csid # csid}
        \cup {[csid |-> csid, ccid |-> ccid, profile_id |-> profile_id,
               report_data |-> report_data]}

\* complete_competition_session: marks the session of csid, if any, complete
complete_competition_session(table, csid) ==
    [i \in DOMAIN table |->
        IF table[i].csid = csid
        THEN [table[i] EXCEPT !.state = "Completed"]
        ELSE table[i]]

----------------------------------------------------------------------------
(* Bytes: a request body is a sequence of bytes, numbers in 0..255         *)

\* the printable ASCII characters, from code 32 to code 126 (the grave accent
\* of code 96 is written \x60)
ASCII ==
    <<
      " ", "!", "\"", "#", "$", "%", "&", "'", "(", ")", "*", "+", ",", "-", ".", "/",
      "0", "1", "2", "3", "4", "5", "6", "7", "8", "9", ":", ";", "<", "=", ">", "?",
      "@", "A", "B", "C", "D", "E", "F", "G", "H", "I", "J", "K", "L", "M", "N", "O",
      "P", "Q", "R", "S", "T", "U", "V", "W", "X", "Y", "Z", "[", "\\", "]", "^", "_",
      "\\x60", "a", "b", "c", "d", "e", "f", "g", "h", "i", "j", "k", "l", "m", "n", "o",
      "p", "q", "r", "s", "t", "u", "v", "w", "x", "y", "z", "{", "|", "}", "~"
    >>

HEX == <<"0","1","2","3","4","5","6","7","8","9","A","B","C","D","E","F">>

\* Python: ord(c), for a printable ASCII character
Ord(c) == 31 + CHOOSE i \in 1..Len(ASCII) : ASCII[i] = c

\* Python: chr(b), for b < 128; a control character is written \xHH
Chr(b) ==
    IF b \in 32..126 THEN ASCII[b - 31]
    ELSE "\\x" \o HEX[(b \div 16) + 1] \o HEX[(b % 16) + 1]

\* Python: text.encode("ascii"), for a sequence of printable characters
Bytes(text) == [i \in 1..Len(text) |-> Ord(text[i])]

\* as Find, with the last occurrence in place of the first
Find_last(hay, needle, start) ==
    LET hits == {i \in start..(Len(hay) - Len(needle)) :
                    /\ hay[i + 1] = needle[1]
                    /\ SubSeq(hay, i + 1, i + Len(needle)) = needle}
    IN  IF hits = {} THEN -1
        ELSE CHOOSE i \in hits : \A j \in hits : i >= j

\* Python: hay.find(needle, start): the least index at or after start where
\* needle occurs, -1 when there is none
Find(hay, needle, start) ==
    LET hits == {i \in start..(Len(hay) - Len(needle)) :
                    /\ hay[i + 1] = needle[1]
                    /\ SubSeq(hay, i + 1, i + Len(needle)) = needle}
    IN  IF hits = {} THEN -1
        ELSE CHOOSE i \in hits : \A j \in hits : i <= j

IsAscii(b) == b < 128

\* Python: b.decode("ascii", errors="ignore"), as a sequence of characters
DecodeAsciiIgnore(b) ==
    LET kept == SelectSeq(b, IsAscii)
    IN  [i \in 1..Len(kept) |-> Chr(kept[i])]

\* the characters of a text joined into one string
RECURSIVE Join(_)
Join(chars) == IF chars = <<>> THEN "" ELSE Head(chars) \o Join(Tail(chars))

\* Python: b.decode("utf-8") raises unless b is well-formed UTF-8; of the
\* multi-byte forms the two-byte one (110xxxxx 10xxxxxx) is computed, any
\* other byte of 128 or more is taken as ill-formed
IsUtf8(b) ==
    \A i \in 1..Len(b) :
        \/ b[i] < 128
        \/ b[i] \in 194..223 /\ i < Len(b) /\ b[i + 1] \in 128..191
        \/ b[i] \in 128..191 /\ i > 1 /\ b[i - 1] \in 194..223

(* gzip: a member with one stored (uncompressed) deflate block.  Header of *)
(* ten bytes (magic 1F 8B, method 8, no flags, no mtime, no extra flags,   *)
(* unknown OS), the block (final-block byte, LEN, NLEN, data), then the    *)
(* check value of the data and its length, four bytes each.  The check     *)
(* value stands for CRC-32.                                                *)

GZIP_HEADER == <<31, 139, 8, 0, 0, 0, 0, 0, 0, 255>>

U32(n) ==
    <<n % 256, (n \div 256) % 256, (n \div 65536) % 256, (n \div 16777216) % 256>>

\* the sum of the bytes from..to of b, each weighted by its position
RECURSIVE WeightedSum(_, _, _)
WeightedSum(b, from, to) ==
    IF from > to THEN 0
    ELSE IF from = to THEN from * b[from]
    ELSE LET mid == (from + to) \div 2
         IN  WeightedSum(b, from, mid) + WeightedSum(b, mid + 1, to)

CheckValue(b) == WeightedSum(b, 1, Len(b)) % 65536

\* Python: gzip.compress(b, compresslevel=0), the sender's side
gzip_compress(b) ==
    GZIP_HEADER
        \o <<1, Len(b) % 256, Len(b) \div 256,
             255 - (Len(b) % 256), 255 - (Len(b) \div 256)>>
        \o b \o U32(CheckValue(b)) \o U32(Len(b))

\* Python: gzip.decompress(z); [ok |-> FALSE] stands for the exception raised
\* (BadGzipFile, EOFError, zlib.error)
gzip_decompress(z) ==
    LET fail == [ok |-> FALSE, value |-> <<>>]
    IN  IF Len(z) < 15 \/ SubSeq(z, 1, 4) # SubSeq(GZIP_HEADER, 1, 4) THEN fail
        ELSE
          LET n == z[12] + 256 * z[13]
          IN  IF \/ z[11] # 1
                 \/ z[14] # 255 - z[12]
                 \/ z[15] # 255 - z[13]
                 \/ Len(z) # 15 + n + 8
              THEN fail
              ELSE
                LET data == SubSeq(z, 16, 15 + n)
                IN  IF /\ SubSeq(z, 16 + n, 19 + n) = U32(CheckValue(data))
                       /\ SubSeq(z, 20 + n, 23 + n) = U32(n)
                    THEN [ok |-> TRUE, value |-> data]
                    ELSE fail

----------------------------------------------------------------------------
(* Requests *)

BaseReq ==
    [endpoint |-> "auth", soap_action |-> <<>>, wellformed |-> TRUE,
     opname |-> <<>>, csid |-> "", ccid |-> "", hasCert |-> FALSE,
     certPid |-> <<>>, topPid |-> <<>>, raw_report |-> <<>>]

Hdr(name) == <<"n", "s", "/">> \o name

Quoted(s) == <<"\"">> \o s \o <<"\"">>

OTHER_OPERATION == <<"P", "i", "n", "g">>

PidGood == <<"4", "2">>
PidBad == <<"x">>

CsidInputs == {CsidText(1), CsidText(2), ""}
CcidInputs == {CcidText(1), "zz"}

AuthRequests ==
    {[BaseReq EXCEPT !.soap_action = Quoted(Hdr(LOGIN_REMOTE_AUTH)),
                     !.opname = LOGIN_REMOTE_AUTH, !.topPid = t]
        : t \in {PidGood, PidBad}}
    \cup {[BaseReq EXCEPT !.opname = LOGIN_REMOTE_AUTH],
          [BaseReq EXCEPT !.soap_action = Hdr(OTHER_OPERATION), !.opname = OTHER_OPERATION],
          [BaseReq EXCEPT !.soap_action = Hdr(LOGIN_REMOTE_AUTH), !.wellformed = FALSE]}

CompBase == [BaseReq EXCEPT !.endpoint = "comp"]

CreateRequests ==
    {[CompBase EXCEPT !.soap_action = Hdr(CREATE_SESSION), !.opname = CREATE_SESSION,
                      !.hasCert = TRUE, !.certPid = t]
        : t \in {PidGood, PidBad}}
    \cup {[CompBase EXCEPT !.opname = CREATE_SESSION, !.topPid = PidGood]}

IntentionRequests ==
    {[CompBase EXCEPT !.soap_action = Hdr(SET_REPORT_INTENTION),
                      !.opname = SET_REPORT_INTENTION,
                      !.csid = c, !.ccid = k, !.hasCert = TRUE, !.certPid = PidGood]
        : c \in CsidInputs, k \in CcidInputs}
    \cup {[CompBase EXCEPT !.soap_action = Hdr(SET_REPORT_INTENTION),
                           !.opname = SET_REPORT_INTENTION,
                           !.csid = "", !.ccid = CcidText(1), !.hasCert = TRUE,
                           !.certPid = PidBad]}

SubmitRequests ==
    {[CompBase EXCEPT !.soap_action = Quoted(Hdr(SUBMIT_REPORT)),
                      !.csid = c, !.ccid = k, !.hasCert = TRUE, !.certPid = PidGood,
                      !.raw_report = RawGoodA]
        : c \in CsidInputs, k \in CcidInputs}
    \cup {[CompBase EXCEPT !.soap_action = Quoted(Hdr(SUBMIT_REPORT)),
                           !.csid = CsidText(1), !.ccid = CcidText(1), !.hasCert = TRUE,
                           !.certPid = PidGood, !.raw_report = b]
            : b \in RawReports}
    \cup {[CompBase EXCEPT !.soap_action = Hdr(SUBMIT_REPORT), !.csid = CsidText(1),
                           !.ccid = CcidText(1), !.hasCert = TRUE, !.certPid = PidBad,
                           !.raw_report = RawGoodB, !.wellformed = FALSE]}

OtherCompRequests ==
    {[CompBase EXCEPT !.soap_action = Hdr(OTHER_OPERATION), !.opname = OTHER_OPERATION],
     [CompBase EXCEPT !.soap_action = Hdr(SET_REPORT_INTENTION), !.wellformed = FALSE]}

Requests ==
    AuthRequests \cup CreateRequests \cup IntentionRequests \cup SubmitRequests
        \cup OtherCompRequests

----------------------------------------------------------------------------
(* Endpoint handlers: parsing and dispatch, up to the first storage call   *)

LocInit ==
    [profile_id |-> 0, csid |-> "", ccid |-> "", raw_report |-> <<>>,
     report_data |-> EmptyDict, cert |-> 0, comp_session |-> 0,
     success |-> FALSE, expiry_time |-> -1, error |-> None]

\* the handler returns at once with a response
Immediate(r) == [pc |-> "done", loc |-> LocInit, resp |-> r]

\* the handler calls a handle_* function
Enter(label, l) == [pc |-> label, loc |-> l, resp |-> NoResp]

\* extract_profile_id_from_certificate: [ok |-> FALSE] stands for the
\* ValueError of int()
extract_profile_id_from_certificate(r) ==
    IF r.hasCert /\ r.certPid # <<>>
    THEN IF IsIntText(r.certPid)
         THEN [ok |-> TRUE, value |-> ParseInt(r.certPid)]
         ELSE [ok |-> FALSE, value |-> 0]
    ELSE [ok |-> TRUE, value |-> 0]

\* competition_handler, line 371: the fields extract_submit_report_data
\* returns for a request whose body carries the csid, ccid and profileid of
\* the request between their tags and its report after the marker
FramedFields(r) ==
    [LocInit EXCEPT
        !.csid = r.csid,
        !.ccid = r.ccid,
        !.profile_id = IF r.hasCert /\ IsIntText(r.certPid)
                       THEN ParseInt(r.certPid) ELSE 0,
        !.raw_report = r.raw_report]

(* extract_submit_report_data: the markers of lines 297-303 *)

csid_marker ==
    Bytes(<<"<", "g", "s", "c", ":", "c", "s", "i", "d", ">">>)
csid_end_marker ==
    Bytes(<<"<", "/", "g", "s", "c", ":", "c", "s", "i", "d", ">">>)
ccid_marker ==
    Bytes(<<"<", "g", "s", "c", ":", "c", "c", "i", "d", ">">>)
ccid_end_marker ==
    Bytes(<<"<", "/", "g", "s", "c", ":", "c", "c", "i", "d", ">">>)
profileid_marker ==
    Bytes(<<"<", "g", "s", "c", ":", "p", "r", "o", "f", "i", "l", "e", "i", "d", ">">>)
profileid_end_marker ==
    Bytes(<<"<", "/", "g", "s", "c", ":", "p", "r", "o", "f", "i", "l", "e", "i", "d", ">">>)
bin_marker ==
    Bytes(<<"a", "p", "p", "l", "i", "c", "a", "t", "i", "o", "n", "/", "b", "i", "n">>)
        \o <<0>>

\* as Between, slicing up to the index find returned without testing it for
\* -1: body[start:-1]
Between_unchecked(body, marker, end_marker) ==
    LET start == Find(body, marker, 0)
    IN  IF start = -1 THEN [found |-> FALSE, bytes |-> <<>>]
        ELSE LET from == start + Len(marker)
                 end  == Find(body, end_marker, from)
             IN  IF end = -1
                 THEN [found |-> TRUE, bytes |-> SubSeq(body, from + 1, Len(body) - 1)]
                 ELSE [found |-> TRUE, bytes |-> SubSeq(body, from + 1, end)]

\* lines 307-311 (and 316-320, 325-329): the bytes between the first marker
\* and the first end marker after it
Between(body, marker, end_marker) ==
    LET start == Find(body, marker, 0)
    IN  IF start = -1 THEN [found |-> FALSE, bytes |-> <<>>]
        ELSE LET from == start + Len(marker)
                 end  == Find(body, end_marker, from)
             IN  IF end = -1 THEN [found |-> FALSE, bytes |-> <<>>]
                 ELSE [found |-> TRUE, bytes |-> SubSeq(body, from + 1, end)]

\* lines 330-333: int(b.decode("ascii")), 0 when either raises ValueError
ProfileIdOf(b) ==
    LET text == [i \in 1..Len(b) |-> Chr(b[i])]
    IN  IF (\A i \in 1..Len(b) : IsAscii(b[i])) /\ IsIntText(text)
        THEN ParseInt(text) ELSE 0

\* as extract_submit_report_data, taking the report from the last occurrence
\* of the marker
extract_submit_report_data_lastMarker(body) ==
    LET csid == Between(body, csid_marker, csid_end_marker)
        ccid == Between(body, ccid_marker, ccid_end_marker)
        pid  == Between(body, profileid_marker, profileid_end_marker)
        hits == {i \in 0..(Len(body) - Len(bin_marker)) :
                    SubSeq(body, i + 1, i + Len(bin_marker)) = bin_marker}
        bin_pos == IF hits = {} THEN -1 ELSE CHOOSE i \in hits : \A j \in hits : i >= j
    IN  [LocInit EXCEPT
            !.csid = IF csid.found THEN Join(DecodeAsciiIgnore(csid.bytes)) ELSE "",
            !.ccid = IF ccid.found THEN Join(DecodeAsciiIgnore(ccid.bytes)) ELSE "",
            !.profile_id = IF pid.found THEN ProfileIdOf(pid.bytes) ELSE 0,
            !.raw_report = IF bin_pos = -1 THEN <<>>
                           ELSE SubSeq(body, bin_pos + Len(bin_marker) + 1, Len(body))]

\* extract_submit_report_data(body), by byte scanning
extract_submit_report_data(body) ==
    LET csid == Between(body, csid_marker, csid_end_marker)
        ccid == Between(body, ccid_marker, ccid_end_marker)
        pid  == Between(body, profileid_marker, profileid_end_marker)
        bin_pos == Find(body, bin_marker, 0)
    IN  [LocInit EXCEPT
            !.csid = IF csid.found THEN Join(DecodeAsciiIgnore(csid.bytes)) ELSE "",
            !.ccid = IF ccid.found THEN Join(DecodeAsciiIgnore(ccid.bytes)) ELSE "",
            !.profile_id = IF pid.found THEN ProfileIdOf(pid.bytes) ELSE 0,
            !.raw_report = IF bin_pos = -1 THEN <<>>
                           ELSE SubSeq(body, bin_pos + Len(bin_marker) + 1, Len(body))]

\* auth_handler, up to the call of handle_login_remote_auth
AuthDispatch(r) ==
    LET soap_action == StripQuotes(r.soap_action)
    IN  IF ~r.wellformed THEN Immediate(Fault("MalformedXml"))
        ELSE IF Contains(LOGIN_REMOTE_AUTH, soap_action) \/ r.opname = LOGIN_REMOTE_AUTH
        THEN IF r.topPid # <<>> /\ ~IsIntText(r.topPid)
             THEN Immediate(Fault("ValueError"))
             ELSE Enter("la_open",
                        [LocInit EXCEPT !.profile_id =
                            IF r.topPid # <<>> THEN ParseInt(r.topPid) ELSE 0])
        ELSE Immediate(Ok(LoginRemoteAuthResponse("Success")))

\* as SubmitEntry, with the exception of the parse raised to the endpoint
SubmitEntry_raises(framed) ==
    IF DecodeFails(framed.raw_report)
    THEN Immediate(Fault("DecodeError"))
    ELSE Enter("sr_open", [framed EXCEPT !.report_data = ParseReportData(framed.raw_report)])

\* handle_submit_report, lines 219-269: the report is parsed before the first
\* storage call, and an exception of the parse is logged, not raised
SubmitEntry(framed) ==
    Enter("sr_open", [framed EXCEPT !.report_data = ParseReportData(framed.raw_report)])

\* as CompDispatch, with the last branch falling into CreateSession
CompDispatch_fallsToCreate(r) ==
    LET soap_action == StripQuotes(r.soap_action)
    IN  IF Contains(SUBMIT_REPORT, soap_action)
        THEN SubmitEntry(FramedFields(r))
        ELSE IF ~r.wellformed THEN Immediate(Fault("MalformedXml"))
        ELSE IF Contains(SET_REPORT_INTENTION, soap_action)
                \/ r.opname = SET_REPORT_INTENTION
        THEN LET pid == extract_profile_id_from_certificate(r)
             IN  IF ~pid.ok THEN Immediate(Fault("ValueError"))
                 ELSE Enter("sri_open",
                            [LocInit EXCEPT !.csid = r.csid, !.ccid = r.ccid,
                                            !.profile_id = pid.value])
        ELSE LET pid == extract_profile_id_from_certificate(r)
             IN  IF ~pid.ok THEN Immediate(Fault("ValueError"))
                 ELSE Enter("cs_open", [LocInit EXCEPT !.profile_id = pid.value])

\* competition_handler, up to the first storage call of a handle_* function
CompDispatch(r) ==
    LET soap_action == StripQuotes(r.soap_action)
    IN  IF Contains(SUBMIT_REPORT, soap_action)
        THEN SubmitEntry(FramedFields(r))
        ELSE IF ~r.wellformed THEN Immediate(Fault("MalformedXml"))
        ELSE IF Contains(CREATE_SESSION, soap_action) \/ r.opname = CREATE_SESSION
        THEN LET pid == extract_profile_id_from_certificate(r)
             IN  IF ~pid.ok THEN Immediate(Fault("ValueError"))
                 ELSE Enter("cs_open", [LocInit EXCEPT !.profile_id = pid.value])
        ELSE IF Contains(SET_REPORT_INTENTION, soap_action)
                \/ r.opname = SET_REPORT_INTENTION
        THEN LET pid == extract_profile_id_from_certificate(r)
             IN  IF ~pid.ok THEN Immediate(Fault("ValueError"))
                 ELSE Enter("sri_open",
                            [LocInit EXCEPT !.csid = r.csid, !.ccid = r.ccid,
                                            !.profile_id = pid.value])
        ELSE Immediate(Ok(SubmitReportResponse_success))

Dispatch(r) == IF r.endpoint = "auth" THEN AuthDispatch(r) ELSE CompDispatch(r)

----------------------------------------------------------------------------
(* Results of the handle_* functions *)

\* as LoginResult, reading the first row of the table instead of the row claimed
LoginResult_firstRow(cert, table, expiry_str) ==
    IF cert # 0
    THEN LoginRemoteAuthResponse_success(table[1].certificate_data, expiry_str)
    ELSE LoginRemoteAuthResponse_success(PLACEHOLDER_CERTIFICATE, expiry_str)

\* as LoginResult, answering an exhausted pool with an error result
LoginResult_errorWhenEmpty(cert, table, expiry_str) ==
    IF cert # 0
    THEN LoginRemoteAuthResponse_success(table[cert].certificate_data, expiry_str)
    ELSE LoginRemoteAuthResponse("Error")

\* handle_login_remote_auth, lines 65-76
LoginResult(cert, table, expiry_str) ==
    IF cert # 0
    THEN LoginRemoteAuthResponse_success(table[cert].certificate_data, expiry_str)
    ELSE LoginRemoteAuthResponse_success(PLACEHOLDER_CERTIFICATE, expiry_str)

\* as CreateSessionResult, answering with the ids of the first session ever made
CreateSessionResult_first(comp_session) ==
    CreateSessionResponse_success(CsidText(1), CcidText(1))

\* handle_create_session, lines 155-158
CreateSessionResult(comp_session) ==
    CreateSessionResponse_success(comp_session.csid, comp_session.ccid)

\* as SetReportIntentionResult, ignoring the flag set_report_intention returned
SetReportIntentionResult_ignoresFlag(success, csid, ccid) ==
    SetReportIntentionResponse_success(csid, ccid)

\* handle_set_report_intention, lines 186-190
SetReportIntentionResult(success, csid, ccid) ==
    IF success THEN SetReportIntentionResponse_success(csid, ccid)
    ELSE SetReportIntentionResponse_error

\* handle_submit_report, line 276
SubmitReportResult == SubmitReportResponse_success

\* as StoreReport, skipping a session that is already complete
StoreReport_dedup(table, l) ==
    IF \E i \in SessionRows(sessions, l.csid) : sessions[i].state = "Completed"
    THEN table
    ELSE submit_match_report(table, l.csid, l.ccid, l.profile_id, l.report_data)

\* handle_submit_report, line 274: the report table after the call
StoreReport(table, l) ==
    submit_match_report(table, l.csid, l.ccid, l.profile_id, l.report_data)

\* as CertsAfterClose, giving the certificate back to the pool
CertsAfterClose_release(table, cert) ==
    IF cert # 0 THEN [table EXCEPT ![cert].available = TRUE] ELSE table

\* handle_login_remote_auth, lines 78-79: closing the storage session leaves
\* the certificate it read as it is
CertsAfterClose(table, cert) == table

----------------------------------------------------------------------------
(* State machine *)

Init ==
    /\ certs = [c \in CertIds |-> [certificate_data |-> CertData(c), available |-> TRUE]]
    /\ sessions = <<>>
    /\ reports = {}
    /\ now = 0
    /\ pc = [p \in Procs |-> "idle"]
    /\ req = [p \in Procs |-> BaseReq]
    /\ loc = [p \in Procs |-> LocInit]
    /\ resp = [p \in Procs |-> NoResp]
    /\ dbOpen = [p \in Procs |-> 0]
    /\ started = 0
    /\ handed = [c \in CertIds |-> 0]
    /\ issued = <<>>

\* number of CreateSession calls that have not yet inserted their row
CreatesInFlight == Cardinality({p \in Procs : pc[p] \in {"cs_open", "cs_create"}})

\* a request arrives at an endpoint and is parsed and dispatched
Receive(p, r) ==
    /\ pc[p] \in {"idle", "done"}
    /\ started < MaxReqs
    /\ LET d == Dispatch(r)
       IN  /\ d.pc = "cs_open" => Len(sessions) + CreatesInFlight < MaxSessions
           /\ pc' = [pc EXCEPT ![p] = d.pc]
           /\ loc' = [loc EXCEPT ![p] = d.loc]
           /\ resp' = [resp EXCEPT ![p] = d.resp]
    /\ req' = [req EXCEPT ![p] = r]
    /\ started' = started + 1
    /\ UNCHANGED <<certs, sessions, reports, now, dbOpen, handed, issued>>

\* session = create_session()
create_session(p, from, to) ==
    /\ pc[p] = from
    /\ dbOpen' = [dbOpen EXCEPT ![p] = @ + 1]
    /\ pc' = [pc EXCEPT ![p] = to]
    /\ UNCHANGED <<certs, sessions, reports, now, req, loc, resp, started, handed, issued>>

\* return ... finally: session.close()
Return(p, r) ==
    /\ resp' = [resp EXCEPT ![p] = Ok(r)]
    /\ dbOpen' = [dbOpen EXCEPT ![p] = @ - 1]
    /\ pc' = [pc EXCEPT ![p] = "done"]

(* handle_login_remote_auth *)

LoginOpen(p) == create_session(p, "la_open", "la_get")

\* cert = get_available_certificate(session)
LoginGetCertificate(p) ==
    /\ pc[p] = "la_get"
    /\ IF AvailableCerts(certs) = {}
       THEN /\ loc' = [loc EXCEPT ![p].cert = 0]
            /\ certs' = certs
       ELSE \E c \in AvailableCerts(certs) :
            /\ loc' = [loc EXCEPT ![p].cert = c]
            /\ certs' = MarkUnavailable(certs, c)
    /\ pc' = [pc EXCEPT ![p] = "la_ret"]
    /\ UNCHANGED <<sessions, reports, now, req, resp, dbOpen, started, handed, issued>>

\* datetime.utcnow() reads a clock that has not gone back since its last
\* reading; expiry_time, expiry_str, the response; finally session.close()
LoginReturn(p) ==
    /\ pc[p] = "la_ret"
    /\ \E t \in now..MaxTime :
         LET expiry_time == ExpiryTime(t)
             r == LoginResult(loc[p].cert, certs, Strftime(expiry_time))
         IN  /\ now' = t
             /\ loc' = [loc EXCEPT ![p].expiry_time = expiry_time]
             /\ Return(p, r)
             /\ handed' = [c \in CertIds |->
                              IF r.certificate = certs[c].certificate_data
                              THEN handed[c] + 1 ELSE handed[c]]
    /\ certs' = CertsAfterClose(certs, loc[p].cert)
    /\ UNCHANGED <<sessions, reports, req, started, issued>>

(* handle_create_session *)

CreateOpen(p) == create_session(p, "cs_open", "cs_create")

\* comp_session = create_competition_session(session, profile_id)
CreateInsert(p) ==
    /\ pc[p] = "cs_create"
    /\ sessions' = create_competition_session(sessions, loc[p].profile_id)
    /\ loc' = [loc EXCEPT ![p].comp_session = Len(sessions')]
    /\ pc' = [pc EXCEPT ![p] = "cs_ret"]
    /\ UNCHANGED <<certs, reports, now, req, resp, dbOpen, started, handed, issued>>

CreateReturn(p) ==
    /\ pc[p] = "cs_ret"
    /\ LET r == CreateSessionResult(sessions[loc[p].comp_session])
       IN  /\ Return(p, r)
           /\ issued' = Append(issued, <<r.csid, r.ccid>>)
    /\ UNCHANGED <<certs, sessions, reports, now, req, loc, started, handed>>

(* handle_set_report_intention *)

IntentionOpen(p) == create_session(p, "sri_open", "sri_set")

\* success = set_report_intention(session, csid, profile_id)
IntentionSet(p) ==
    /\ pc[p] = "sri_set"
    /\ loc' = [loc EXCEPT ![p].success = set_report_intention_found(sessions, loc[p].csid)]
    /\ sessions' = set_report_intention(sessions, loc[p].csid, loc[p].profile_id)
    /\ pc' = [pc EXCEPT ![p] = "sri_ret"]
    /\ UNCHANGED <<certs, reports, now, req, resp, dbOpen, started, handed, issued>>

IntentionReturn(p) ==
    /\ pc[p] = "sri_ret"
    /\ Return(p, SetReportIntentionResult(loc[p].success, loc[p].csid, loc[p].ccid))
    /\ UNCHANGED <<certs, sessions, reports, now, req, loc, started, handed, issued>>

(* handle_submit_report *)

SubmitOpen(p) == create_session(p, "sr_open", "sr_submit")

\* as SubmitStore, with the two storage calls in the other order: the session
\* is marked complete where the report should be stored
SubmitStore_completesFirst(p) ==
    /\ pc[p] = "sr_submit"
    /\ sessions' = complete_competition_session(sessions, loc[p].csid)
    /\ pc' = [pc EXCEPT ![p] = "sr_complete"]
    /\ UNCHANGED <<certs, reports, now, req, loc, resp, dbOpen, started, handed, issued>>

\* submit_match_report(session, csid, ccid, profile_id, report_data)
SubmitStore(p) ==
    /\ pc[p] = "sr_submit"
    /\ reports' = StoreReport(reports, loc[p])
    /\ pc' = [pc EXCEPT ![p] = "sr_complete"]
    /\ UNCHANGED <<certs, sessions, now, req, loc, resp, dbOpen, started, handed, issued>>

\* complete_competition_session(session, csid)
SubmitComplete(p) ==
    /\ pc[p] = "sr_complete"
    /\ sessions' = complete_competition_session(sessions, loc[p].csid)
    /\ pc' = [pc EXCEPT ![p] = "sr_ret"]
    /\ UNCHANGED <<certs, reports, now, req, loc, resp, dbOpen, started, handed, issued>>

SubmitReturn(p) ==
    /\ pc[p] = "sr_ret"
    /\ Return(p, SubmitReportResult)
    /\ UNCHANGED <<certs, sessions, reports, now, req, loc, started, handed, issued>>

Next ==
    \/ \E p \in Procs, r \in Requests : Receive(p, r)
    \/ \E p \in Procs : LoginOpen(p)
    \/ \E p \in Procs : LoginGetCertificate(p)
    \/ \E p \in Procs : LoginReturn(p)
    \/ \E p \in Procs : CreateOpen(p)
    \/ \E p \in Procs : CreateInsert(p)
    \/ \E p \in Procs : CreateReturn(p)
    \/ \E p \in Procs : IntentionOpen(p)
    \/ \E p \in Procs : IntentionSet(p)
    \/ \E p \in Procs : IntentionReturn(p)
    \/ \E p \in Procs : SubmitOpen(p)
    \/ \E p \in Procs : SubmitStore(p)
    \/ \E p \in Procs : SubmitComplete(p)
    \/ \E p \in Procs : SubmitReturn(p)

Spec == Init /\ [][Next]_vars

----------------------------------------------------------------------------
(* Requests as they arrive on the wire: the fields of a request and the    *)
(* bytes of its body.  For a body that is parsed as XML the fields are     *)
(* what the envelope codec returns for its text.                           *)

MaxWireReqs == 2

WireProc == 1

XML_HEAD == Bytes(<<"<", "r", ">">>)
XML_TAIL == Bytes(<<"<", "/", "r", ">">>)

CsidChars(n) == <<"c", "s", DigitChars[n + 1]>>
CcidChars(n) == <<"c", "c", DigitChars[n + 1]>>

Element(marker, content, end_marker) == marker \o content \o end_marker

CsidElement(b) == Element(csid_marker, b, csid_end_marker)
CcidElement(b) == Element(ccid_marker, b, ccid_end_marker)
ProfileidElement(b) == Element(profileid_marker, b, profileid_end_marker)

\* the body of a SubmitReport: the envelope, then the marker and the report
SubmitBody(csid, ccid, pid, bin) ==
    XML_HEAD \o csid \o ccid \o pid \o XML_TAIL \o bin

\* a request with the bytes sent (body), the bytes before any compression
\* (plain) and the framed fields that are missing or unusable in the body
OnWire(r, plain, defaulted) ==
    r @@ [body |-> plain, plain |-> plain, defaulted |-> defaulted]

Compressed(w) == [w EXCEPT !.body = gzip_compress(w.plain)]

\* a gzip member whose check value is wrong, one cut short, the magic alone
CorruptCheck(w) ==
    LET z == gzip_compress(w.plain)
    IN  [w EXCEPT !.body =
            [z EXCEPT ![Len(z) - 7] = (@ + 1) % 256]]
CutShort(w) ==
    LET z == gzip_compress(w.plain)
    IN  [w EXCEPT !.body = SubSeq(z, 1, Len(z) - 3)]
MagicOnly(w) == [w EXCEPT !.body = <<31, 139>>]

SubmitFields(n, pid, raw) ==
    [CompBase EXCEPT !.soap_action = Quoted(Hdr(SUBMIT_REPORT)),
                     !.csid = CsidText(n), !.ccid = CcidText(1),
                     !.hasCert = TRUE, !.certPid = pid, !.raw_report = raw]

\* a SubmitReport whose body carries every field
SubmitWire(n, pid, raw) ==
    OnWire(SubmitFields(n, pid, raw),
           SubmitBody(CsidElement(Bytes(CsidChars(n))),
                      CcidElement(Bytes(CcidChars(1))),
                      ProfileidElement(Bytes(pid)),
                      bin_marker \o raw),
           {})

\* reports that hold the marker, or a tag pair, once more
RawMarker == <<7>> \o bin_marker \o <<8, 31, 139>>
RawTags == CsidElement(Bytes(CsidChars(2))) \o <<200>>

FullSubmitWires ==
    {SubmitWire(1, PidGood, raw) :
        raw \in {RawEmpty, RawShort, RawGoodA, RawGoodB, RawMarker, RawTags}}
    \cup {SubmitWire(2, PidGood, RawGoodA),
          SubmitWire(1, <<"-", "7">>, RawGoodB),
          \* a byte that is not ASCII inside the csid: dropped by the decoding
          OnWire(SubmitFields(1, PidGood, RawGoodA),
                 SubmitBody(CsidElement(<<99, 200, 115, 49>>),
                            CcidElement(Bytes(CcidChars(1))),
                            ProfileidElement(Bytes(PidGood)),
                            bin_marker \o RawGoodA),
                 {})}

\* SubmitReport bodies in which a tag pair or the marker is missing, or the
\* profileid is no integer
PartialSubmitWires ==
    LET f == SubmitFields(1, PidGood, RawGoodA)
        c == CsidElement(Bytes(CsidChars(1)))
        k == CcidElement(Bytes(CcidChars(1)))
        i == ProfileidElement(Bytes(PidGood))
        b == bin_marker \o RawGoodA
    IN  {OnWire(f, SubmitBody(<<>>, k, i, b), {"csid"}),
         OnWire(f, SubmitBody(csid_marker \o Bytes(CsidChars(1)), k, i, b), {"csid"}),
         OnWire(f, SubmitBody(csid_end_marker \o csid_marker, k, i, b), {"csid"}),
         OnWire(f, SubmitBody(c, <<>>, i, b), {"ccid"}),
         OnWire(f, SubmitBody(c, k, <<>>, b), {"profileid"}),
         OnWire(f, SubmitBody(c, k, ProfileidElement(Bytes(PidBad)), b), {"profileid"}),
         OnWire(f, SubmitBody(c, k, ProfileidElement(<<>>), b), {"profileid"}),
         OnWire(f, SubmitBody(c, k, ProfileidElement(<<52, 200>>), b), {"profileid"}),
         OnWire(f, SubmitBody(c, k, i, <<>>), {"bin"}),
         OnWire(f, SubmitBody(c, k, i, SubSeq(bin_marker, 1, 15) \o RawGoodA), {"bin"}),
         OnWire(f, <<>>, {"csid", "ccid", "profileid", "bin"})}

SubmitWires == FullSubmitWires \cup PartialSubmitWires

GzipSubmitWires ==
    {Compressed(w) : w \in SubmitWires}

BadGzipWires ==
    LET w == SubmitWire(1, PidGood, RawGoodA)
    IN  {CorruptCheck(w), CutShort(w), MagicOnly(w)}

\* bodies that are parsed as XML
XML_DOC == XML_HEAD \o XML_TAIL

XmlWires ==
    {OnWire(r, XML_DOC, {}) :
        r \in AuthRequests \cup CreateRequests \cup OtherCompRequests
                \cup {q \in IntentionRequests : q.ccid = CcidText(1)}}

\* a body that is not UTF-8, on each endpoint
NotUtf8Wires ==
    {OnWire(r, XML_HEAD \o <<200>> \o XML_TAIL, {}) :
        r \in {[BaseReq EXCEPT !.soap_action = Quoted(Hdr(LOGIN_REMOTE_AUTH)),
                               !.opname = LOGIN_REMOTE_AUTH, !.topPid = PidGood],
               [CompBase EXCEPT !.soap_action = Hdr(CREATE_SESSION),
                                !.opname = CREATE_SESSION, !.hasCert = TRUE,
                                !.certPid = PidGood]}}

\* compressed bodies that are parsed as XML; a gzip body sent to the auth
\* endpoint, which does not decompress
GzipXmlWires ==
    LET create == OnWire([CompBase EXCEPT !.soap_action = Hdr(CREATE_SESSION),
                                          !.opname = CREATE_SESSION, !.hasCert = TRUE,
                                          !.certPid = PidGood], XML_DOC, {})
        login == OnWire([BaseReq EXCEPT !.soap_action = Quoted(Hdr(LOGIN_REMOTE_AUTH)),
                                        !.opname = LOGIN_REMOTE_AUTH, !.topPid = PidGood],
                        XML_DOC, {})
    IN  {Compressed(create), CorruptCheck(create), Compressed(login)}

\* SubmitReport bodies under a SOAPAction written in another letter case
OtherCaseWires ==
    {[SubmitWire(1, PidGood, raw) EXCEPT
            !.soap_action = Hdr(<<"s","u","b","m","i","t","r","e","p","o","r","t">>),
                                         !.opname = SUBMIT_REPORT,
                                         !.wellformed = FALSE] :
        raw \in {RawGoodA, RawTags}}

WireRequests ==
    SubmitWires \cup GzipSubmitWires \cup BadGzipWires \cup XmlWires
        \cup NotUtf8Wires \cup GzipXmlWires \cup OtherCaseWires

----------------------------------------------------------------------------
(* Endpoint handlers, from the bytes of the body                           *)

\* as ReadBody, without the decompression
ReadBody_asSent(body) == [ok |-> TRUE, value |-> body]

\* competition_handler, lines 363-366
ReadBody(body) ==
    IF Len(body) >= 2 /\ body[1] = 31 /\ body[2] = 139
    THEN gzip_decompress(body)
    ELSE [ok |-> TRUE, value |-> body]

\* auth_handler, lines 89-127
auth_handler(w) ==
    IF ~IsUtf8(w.body) THEN Immediate(Fault("UnicodeDecodeError"))
    ELSE AuthDispatch(w)

\* competition_handler, lines 359-414
competition_handler(w) ==
    LET soap_action == StripQuotes(w.soap_action)
        body == ReadBody(w.body)
    IN  IF ~body.ok THEN Immediate(Fault("BadGzipFile"))
        ELSE IF Contains(SUBMIT_REPORT, soap_action)
        THEN SubmitEntry(extract_submit_report_data(body.value))
        ELSE IF ~IsUtf8(body.value) THEN Immediate(Fault("UnicodeDecodeError"))
        ELSE CompDispatch(w)

WireDispatch(w) ==
    IF w.endpoint = "auth" THEN auth_handler(w) ELSE competition_handler(w)

\* a request arrives, is read and dispatched; requests follow one another
WireReceive(p, w) ==
    /\ pc[p] \in {"idle", "done"}
    /\ started < MaxWireReqs
    /\ LET d == WireDispatch(w)
       IN  /\ d.pc = "cs_open" => Len(sessions) + CreatesInFlight < MaxSessions
           /\ pc' = [pc EXCEPT ![p] = d.pc]
           /\ loc' = [loc EXCEPT ![p] = d.loc]
           /\ resp' = [resp EXCEPT ![p] = d.resp]
    /\ req' = [req EXCEPT ![p] = w]
    /\ started' = started + 1
    /\ UNCHANGED <<certs, sessions, reports, now, dbOpen, handed, issued>>

\* the positions of the calls of app.db.crud
CallSites == {"la_get", "cs_create", "sri_set", "sr_submit", "sr_complete"}

\* as StorageRaises, without the finally clauses: the session of a call
\* that raises is left as it was
StorageRaises_noFinally(p) ==
    /\ pc[p] \in {"la_open", "cs_open", "sri_open", "sr_open"} \cup CallSites
                \cup {"la_ret", "cs_ret", "sri_ret", "sr_ret"}
    /\ loc' = [loc EXCEPT ![p].error = "StorageError"]
    /\ resp' = [resp EXCEPT ![p] = Fault("StorageError")]
    /\ pc' = [pc EXCEPT ![p] = "done"]
    /\ UNCHANGED <<certs, sessions, reports, now, req, started, handed, issued, dbOpen>>

\* create_session(), a call of app.db.crud or session.close() raises: the
\* finally clause calls close() on the session of a call that had opened it,
\* and the except clause of the endpoint answers.  dbOpen counts the
\* sessions a handler has opened and not yet passed to close(): a close()
\* that raises has been called, and the handler holds the session no more.
StorageRaises(p) ==
    /\ pc[p] \in {"la_open", "cs_open", "sri_open", "sr_open"} \cup CallSites
                \cup {"la_ret", "cs_ret", "sri_ret", "sr_ret"}
    /\ loc' = [loc EXCEPT ![p].error = "StorageError"]
    /\ resp' = [resp EXCEPT ![p] = Fault("StorageError")]
    /\ dbOpen' = [dbOpen EXCEPT ![p] =
                    IF pc[p] \in {"la_open", "cs_open", "sri_open", "sr_open"}
                    THEN @ ELSE @ - 1]
    /\ pc' = [pc EXCEPT ![p] = "done"]
    /\ UNCHANGED <<certs, sessions, reports, now, req, started, handed, issued>>

WireInit ==
    /\ certs = [c \in CertIds |-> [certificate_data |-> CertData(c), available |-> TRUE]]
    /\ sessions = <<>>
    /\ reports = {}
    /\ now = 0
    /\ pc = [p \in Procs |-> "idle"]
    /\ req = [p \in Procs |-> OnWire(BaseReq, <<>>, {})]
    /\ loc = [p \in Procs |-> LocInit]
    /\ resp = [p \in Procs |-> NoResp]
    /\ dbOpen = [p \in Procs |-> 0]
    /\ started = 0
    /\ handed = [c \in CertIds |-> 0]
    /\ issued = <<>>

WireNext ==
    \/ \E w \in WireRequests : WireReceive(WireProc, w)
    \/ LoginOpen(WireProc)
    \/ LoginGetCertificate(WireProc)
    \/ LoginReturn(WireProc)
    \/ CreateOpen(WireProc)
    \/ CreateInsert(WireProc)
    \/ CreateReturn(WireProc)
    \/ IntentionOpen(WireProc)
    \/ IntentionSet(WireProc)
    \/ IntentionReturn(WireProc)
    \/ SubmitOpen(WireProc)
    \/ SubmitStore(WireProc)
    \/ SubmitComplete(WireProc)
    \/ SubmitReturn(WireProc)
    \/ StorageRaises(WireProc)

WireSpec == WireInit /\ [][WireNext]_vars

----------------------------------------------------------------------------
(* The auth endpoint alone, with the scheduling of its handler: a call     *)
(* that has been received runs to its return.  Requests arrive or not.     *)

AuthNext ==
    \/ \E p \in Procs, r \in AuthRequests : Receive(p, r)
    \/ \E p \in Procs : LoginOpen(p)
    \/ \E p \in Procs : LoginGetCertificate(p)
    \/ \E p \in Procs : LoginReturn(p)

AuthFairness ==
    \A p \in Procs :
        WF_vars(LoginOpen(p) \/ LoginGetCertificate(p) \/ LoginReturn(p))

AuthLive == Init /\ [][AuthNext]_vars /\ AuthFairness

----------------------------------------------------------------------------
(* SubmitReport on reports of every shape up to MaxPlayers players         *)

MaxPlayers == 2

\* the record of one player: persona id, faction, winner flag
PlayerBytes == {<<id, 1, w>> : id \in {11, 12}, w \in {0, 1}}

RECURSIVE Flatten(_)
Flatten(ss) == IF ss = <<>> THEN <<>> ELSE Head(ss) \o Flatten(Tail(ss))

\* a report of these players: header, player records, map path, replay guid
ReportOf(players) ==
    <<1, 0, 0, 0, 0, 0, 5, 0, Len(players), 0, 2, 0>>
        \o Flatten(players) \o <<1, 77, 0>>

GeneratedReports ==
    {ReportOf(ps) : ps \in UNION {[1..n -> PlayerBytes] : n \in 0..MaxPlayers}}

CodecRequests ==
    {SubmitFields(1, PidGood, raw) : raw \in GeneratedReports \cup RawReports}

\* one SubmitReport is received
CodecReceive(p, r) == started = 0 /\ Receive(p, r)

CodecNext ==
    \/ \E r \in CodecRequests : CodecReceive(WireProc, r)
    \/ SubmitOpen(WireProc)
    \/ SubmitStore(WireProc)
    \/ SubmitComplete(WireProc)
    \/ SubmitReturn(WireProc)

CodecSpec == Init /\ [][CodecNext]_vars

----------------------------------------------------------------------------
(* Concurrent requests with a storage that can fail: every request that    *)
(* enters a handler, any interleaving of the handlers' steps, and at each  *)
(* step the failure of the storage call the handler is about to make.      *)

\* the requests that enter a handler, one of each kind as far as storage
\* tells them apart (it compares no ccid and parses no report)
StoredRequests ==
    {r \in Requests : /\ Dispatch(r).pc # "done"
                      /\ r.ccid \in {"", CcidText(1)}
                      /\ r.raw_report \in {RawEmpty, RawShort, RawGoodA}}

FailNext ==
    \/ \E p \in Procs, r \in StoredRequests : Receive(p, r)
    \/ \E p \in Procs : LoginOpen(p)
    \/ \E p \in Procs : LoginGetCertificate(p)
    \/ \E p \in Procs : LoginReturn(p)
    \/ \E p \in Procs : CreateOpen(p)
    \/ \E p \in Procs : CreateInsert(p)
    \/ \E p \in Procs : CreateReturn(p)
    \/ \E p \in Procs : IntentionOpen(p)
    \/ \E p \in Procs : IntentionSet(p)
    \/ \E p \in Procs : IntentionReturn(p)
    \/ \E p \in Procs : SubmitOpen(p)
    \/ \E p \in Procs : SubmitStore(p)
    \/ \E p \in Procs : SubmitComplete(p)
    \/ \E p \in Procs : SubmitReturn(p)
    \/ \E p \in Procs : StorageRaises(p)

FailSpec == Init /\ [][FailNext]_vars

----------------------------------------------------------------------------
(* Vocabulary of the properties *)

\* the handle_* function a request is dispatched to ("done": none)
Handler(r) == Dispatch(r).pc

\* process p has returned from the handler entered at label
Done(p, label) == pc[p] = "done" /\ Handler(req[p]) = label

\* the step is process p moving from one position to the next
Steps(p, from, to) == pc[p] = from /\ pc'[p] = to

Resolves(table, csid) == SessionRows(table, csid) # {}

StatesOf(table, csid) == {table[i].state : i \in SessionRows(table, csid)}

Rank(state) ==
    CASE state = "Created" -> 1
      [] state = "IntentionSet" -> 2
      [] state = "Completed" -> 3

\* a well-formed request for the named operation of the competition endpoint
IsIntentionRequest(r) ==
    /\ r.endpoint = "comp"
    /\ r.wellformed
    /\ ~Contains(SUBMIT_REPORT, StripQuotes(r.soap_action))
    /\ ~(Contains(CREATE_SESSION, StripQuotes(r.soap_action)) \/ r.opname = CREATE_SESSION)
    /\ (Contains(SET_REPORT_INTENTION, StripQuotes(r.soap_action))
            \/ r.opname = SET_REPORT_INTENTION)

IsSubmitRequest(r) ==
    r.endpoint = "comp" /\ Contains(SUBMIT_REPORT, StripQuotes(r.soap_action))

\* the results row a SubmitReport call of process p stores
RowOf(p) ==
    [csid |-> loc[p].csid, ccid |-> loc[p].ccid, profile_id |-> loc[p].profile_id,
     report_data |-> loc[p].report_data]

----------------------------------------------------------------------------
(* Properties *)

\* C1: under every interleaving of LoginRemoteAuth calls no real certificate is
\* handed to two calls: no certificate is carried by more than one response,
\* two calls in flight never hold the same certificate, and a certificate a
\* call holds has not been returned by an earlier call.
C1_NoDoubleAllocation ==
    /\ \A c \in CertIds : handed[c] <= 1
    /\ \A p, q \in Procs :
          (p # q /\ pc[p] = "la_ret" /\ pc[q] = "la_ret" /\ loc[p].cert # 0)
              => loc[p].cert # loc[q].cert
    /\ \A p \in Procs :
          (pc[p] = "la_ret" /\ loc[p].cert # 0) => handed[loc[p].cert] = 0

\* two calls are in flight at once, each holding a real certificate
C1_Witness ==
    \E p, q \in Procs :
        /\ p # q
        /\ pc[p] = "la_ret" /\ pc[q] = "la_ret"
        /\ loc[p].cert # 0 /\ loc[q].cert # 0

\* C2: every csid/ccid pair CreateSession returns was returned by no earlier
\* CreateSession, and two calls in flight never hold the same pair.
C2_FreshPairs ==
    /\ \A i, j \in DOMAIN issued : i # j => issued[i] # issued[j]
    /\ \A p, q \in Procs :
          (p # q /\ pc[p] = "cs_ret" /\ pc[q] = "cs_ret")
              => CreateSessionResult(sessions[loc[p].comp_session])
                    # CreateSessionResult(sessions[loc[q].comp_session])
    /\ \A p \in Procs : \A i \in DOMAIN issued :
          pc[p] = "cs_ret" =>
              LET r == CreateSessionResult(sessions[loc[p].comp_session])
              IN  issued[i] # <<r.csid, r.ccid>>

\* two CreateSession calls have returned
C2_Witness == Len(issued) = 2

C5_SubmitNeedsSession ==
    \A p \in Procs :
        (pc[p] = "done" /\ IsSubmitRequest(req[p])
            /\ ~Resolves(sessions, req[p].csid))
            => /\ resp[p].result # "Success"
               /\ "Completed" \notin StatesOf(sessions, req[p].csid)

\* C6 as claimed: a SetReportIntention or SubmitReport for a csid that
\* CreateSession has returned, whose ccid differs from the ccid returned with
\* that csid, is not accepted as a success.
C6_CcidMustMatch ==
    \A p \in Procs : \A i \in DOMAIN issued :
        (pc[p] = "done"
            /\ (IsIntentionRequest(req[p]) \/ IsSubmitRequest(req[p]))
            /\ issued[i][1] = req[p].csid
            /\ issued[i][2] # req[p].ccid)
            => resp[p].result # "Success"

\* C7: when parsing the raw report raises, SubmitReport goes on: it stores the
\* results row of the call (with no parsed fields), marks the session of the
\* csid Completed, and answers with the success response and normal status.
C7_DecodeFailureSwallowed ==
    /\ [](\A p \in Procs :
            (IsSubmitRequest(req[p]) /\ DecodeFails(req[p].raw_report))
                => /\ pc[p] \in {"sr_open", "sr_submit", "sr_complete", "sr_ret", "done"}
                   /\ loc[p].report_data = EmptyDict
                   /\ pc[p] = "done" => resp[p] = Ok(SubmitReportResponse_success))
    /\ [][\A p \in Procs :
            (IsSubmitRequest(req[p]) /\ DecodeFails(req[p].raw_report))
                => /\ Steps(p, "sr_submit", "sr_complete") => RowOf(p) \in reports'
                   /\ Steps(p, "sr_complete", "sr_ret")
                        => \A i \in SessionRows(sessions, req[p].csid) :
                              sessions'[i].state = "Completed"]_vars

\* a SubmitReport whose report could not be parsed has been answered; its
\* session is Completed and its results row is stored
C7_Witness ==
    \E p \in Procs :
        /\ pc[p] = "done"
        /\ IsSubmitRequest(req[p])
        /\ DecodeFails(req[p].raw_report)
        /\ StatesOf(sessions, req[p].csid) = {"Completed"}
        /\ RowOf(p) \in reports
        /\ resp[p] = Ok(SubmitReportResponse_success)

\* C8: every SubmitReport, also for a session that is already Completed, is
\* answered with the success response; the results stored for a csid are one
\* row, that of the last submission stored; the session stays Completed.
C8_Resubmission ==
    /\ [](\A p \in Procs :
            (pc[p] = "done" /\ IsSubmitRequest(req[p]))
                => resp[p] = Ok(SubmitReportResponse_success))
    /\ [](\A r1, r2 \in reports : r1.csid = r2.csid => r1 = r2)
    /\ [][\A p \in Procs :
            Steps(p, "sr_submit", "sr_complete")
                => {r \in reports' : r.csid = loc[p].csid} = {RowOf(p)}]_vars
    /\ [][\A p \in Procs :
            Steps(p, "sr_complete", "sr_ret")
                => \A i \in SessionRows(sessions, loc[p].csid) :
                      sessions'[i].state = "Completed"]_vars
    /\ [][\A i \in DOMAIN sessions :
            sessions[i].state = "Completed" => sessions'[i].state = "Completed"]_vars

\* a process working alone has stored the results of a further submission
\* for a session that was already Completed
C8_Witness ==
    \E p \in Procs :
        /\ pc[p] = "sr_complete"
        /\ \A q \in Procs \ {p} : pc[q] = "idle"
        /\ StatesOf(sessions, loc[p].csid) = {"Completed"}
        /\ {r \in reports : r.csid = loc[p].csid} = {RowOf(p)}

\* C9: a LoginRemoteAuth call that finds no certificate available answers
\* "Success" with the placeholder certificate, the normal status and the
\* expiry of its clock reading plus 180 seconds, as a call that got a real
\* certificate does; it leaves the certificate table unchanged.
C9_PlaceholderWhenExhausted ==
    /\ [](\A p \in Procs :
            (Done(p, "la_open") /\ loc[p].cert = 0)
                => resp[p] = Ok(LoginRemoteAuthResponse_success(
                                    PLACEHOLDER_CERTIFICATE,
                                    Strftime(loc[p].expiry_time))))
    /\ [](\A p \in Procs :
            Done(p, "la_open") => resp[p].expiry = Strftime(loc[p].expiry_time))
    /\ [][\A p \in Procs :
            Steps(p, "la_ret", "done") => loc'[p].expiry_time = ExpiryTime(now')]_vars
    /\ [][\A p \in Procs :
            (Steps(p, "la_get", "la_ret") /\ AvailableCerts(certs) = {})
                => loc'[p].cert = 0]_vars
    /\ [][\A p \in Procs :
            (pc[p] \in {"la_open", "la_get", "la_ret"} /\ pc'[p] # pc[p]
                /\ (pc[p] = "la_ret" => loc[p].cert = 0)
                /\ AvailableCerts(certs) = {})
                => certs' = certs]_vars

\* the pool is exhausted and a call has been answered with the placeholder
C9_Witness ==
    \E p \in Procs :
        /\ Done(p, "la_open")
        /\ loc[p].cert = 0
        /\ AvailableCerts(certs) = {}
        /\ resp[p].certificate = PLACEHOLDER_CERTIFICATE

C11_ReturnedToPool ==
    \A c \in CertIds : (~certs[c].available) ~> certs[c].available

\* C12: every LoginRemoteAuth call that returns, with a real or with the
\* placeholder certificate, returns as expiry the clock reading of the call
\* plus exactly 180 seconds, cut to whole seconds: the second of the reading
\* plus 180.
C12_ExpiryIs180 ==
    /\ [][\A p \in Procs :
            Steps(p, "la_ret", "done")
                => /\ resp'[p].expiry = Strftime(now') + 180
                   /\ resp'[p].expiry * TicksPerSecond <= now' + 180 * TicksPerSecond
                   /\ now' + 180 * TicksPerSecond < (resp'[p].expiry + 1) * TicksPerSecond
                   /\ resp'[p].certificate # None]_vars
    /\ [](\A p \in Procs :
            Done(p, "la_open") => resp[p].expiry = Strftime(loc[p].expiry_time))

\* a call has returned the placeholder and another a real certificate, both
\* read the clock between two whole seconds, and the expiry is second 180
C12_Witness ==
    \E p, q \in Procs :
        /\ Done(p, "la_open") /\ Done(q, "la_open")
        /\ resp[p].certificate = PLACEHOLDER_CERTIFICATE
        /\ \E c \in CertIds : resp[q].certificate = certs[c].certificate_data
        /\ loc[p].expiry_time = 1 + 180 * TicksPerSecond
        /\ loc[q].expiry_time = 1 + 180 * TicksPerSecond
        /\ resp[p].expiry = 180 /\ resp[q].expiry = 180

\* a SubmitReport is being handled, or has been, whose body went out as it is
PlainSubmit(p) ==
    pc[p] # "idle" /\ IsSubmitRequest(req[p]) /\ req[p].body = req[p].plain

\* a SubmitReport is being handled, or has been, whose body went out as the
\* gzip member of its bytes
GzipSubmit(p) ==
    /\ pc[p] # "idle"
    /\ IsSubmitRequest(req[p])
    /\ req[p].body = gzip_compress(req[p].plain)

InSubmit == {"sr_open", "sr_submit", "sr_complete", "sr_ret", "done"}

\* C13: framing a SubmitReport body that holds the csid, ccid and profileid
\* tag pairs, then the marker, then the report, gives the csid and ccid
\* between their tags, the integer between the profileid tags, and as the
\* report every byte after the first occurrence of the marker, also when
\* the report holds the marker or a tag pair again.
C13_FramingExact ==
    \A p \in Procs :
        (PlainSubmit(p) /\ req[p].defaulted = {})
            => /\ pc[p] \in InSubmit
               /\ loc[p].csid = req[p].csid
               /\ loc[p].ccid = req[p].ccid
               /\ loc[p].profile_id = ParseInt(req[p].certPid)
               /\ loc[p].raw_report = req[p].raw_report
               /\ LET f == FramedFields(req[p])
                  IN  <<loc[p].csid, loc[p].ccid, loc[p].profile_id, loc[p].raw_report>>
                        = <<f.csid, f.ccid, f.profile_id, f.raw_report>>

\* a SubmitReport whose report holds the marker once more has been answered
\* and its results row stored
C13_Witness ==
    \E p \in Procs :
        /\ PlainSubmit(p)
        /\ pc[p] = "done"
        /\ req[p].defaulted = {}
        /\ req[p].raw_report = RawMarker
        /\ loc[p].raw_report = RawMarker
        /\ RowOf(p) \in reports
        /\ resp[p] = Ok(SubmitReportResponse_success)

\* C14: framing never raises: a csid or ccid whose tag pair is missing is the
\* empty string, a profileid that is missing or no integer is 0, a report
\* whose marker is missing is empty, every field that is there is framed as
\* it is, and the request is handled as a SubmitReport and, when storage
\* raises no error, answered with the success response.
C14_MissingMarkersTolerated ==
    \A p \in Procs :
        PlainSubmit(p)
            => /\ pc[p] \in InSubmit
               /\ loc[p].csid =
                    IF "csid" \in req[p].defaulted THEN "" ELSE req[p].csid
               /\ loc[p].ccid =
                    IF "ccid" \in req[p].defaulted THEN "" ELSE req[p].ccid
               /\ loc[p].profile_id =
                    IF "profileid" \in req[p].defaulted THEN 0
                    ELSE ParseInt(req[p].certPid)
               /\ loc[p].raw_report =
                    IF "bin" \in req[p].defaulted THEN <<>> ELSE req[p].raw_report
               /\ (pc[p] = "done" /\ loc[p].error = None)
                    => resp[p] = Ok(SubmitReportResponse_success)

\* an empty body has been answered with the success response, its row stored
C14_Witness ==
    \E p \in Procs :
        /\ PlainSubmit(p)
        /\ pc[p] = "done"
        /\ req[p].body = <<>>
        /\ req[p].defaulted = {"csid", "ccid", "profileid", "bin"}
        /\ RowOf(p) \in reports
        /\ RowOf(p).csid = "" /\ RowOf(p).profile_id = 0
        /\ resp[p] = Ok(SubmitReportResponse_success)

\* C15: a SubmitReport body sent as a gzip member is framed to the fields
\* the body it decompresses to is framed to, stores the results row and
\* completes the session that body would, and gets the same response.
C15_GzipSameAsPlain ==
    /\ [](\A p \in Procs :
            GzipSubmit(p)
                => LET d == WireDispatch([req[p] EXCEPT !.body = req[p].plain])
                   IN  /\ d.pc = "sr_open"
                       /\ pc[p] \in InSubmit
                       /\ [loc[p] EXCEPT !.error = None] = d.loc
                       /\ (pc[p] = "done" /\ loc[p].error = None)
                            => resp[p] = Ok(SubmitReportResponse_success))
    /\ [][\A p \in Procs :
            GzipSubmit(p)
                => LET d == WireDispatch([req[p] EXCEPT !.body = req[p].plain])
                   IN  /\ Steps(p, "sr_submit", "sr_complete")
                            => reports' = StoreReport(reports, d.loc)
                       /\ Steps(p, "sr_complete", "sr_ret")
                            => sessions' = complete_competition_session(
                                              sessions, d.loc.csid)]_vars

\* a compressed SubmitReport for an open session has been answered: its row
\* is stored and the session Completed
C15_Witness ==
    \E p \in Procs :
        /\ GzipSubmit(p)
        /\ pc[p] = "done"
        /\ req[p].defaulted = {}
        /\ loc[p].csid = req[p].csid
        /\ loc[p].raw_report = req[p].raw_report
        /\ req[p].raw_report # <<>>
        /\ RowOf(p) \in reports
        /\ StatesOf(sessions, loc[p].csid) = {"Completed"}
        /\ resp[p] = Ok(SubmitReportResponse_success)

\* the letters of a text in lower case
ToLower(text) ==
    [i \in 1..Len(text) |->
        IF Ord(text[i]) \in 65..90 THEN Chr(Ord(text[i]) + 32) ELSE text[i]]

ContainsAnyCase(needle, hay) == Contains(ToLower(needle), ToLower(hay))

\* C16 as claimed: a request to the competition endpoint whose SOAPAction
\* holds "SubmitReport" in any letter case is framed by byte scanning and
\* handled as a SubmitReport: it is never answered by a fault of the XML
\* parse, and its report is the bytes after the marker.
C16_CaseInsensitive ==
    \A p \in Procs :
        (/\ pc[p] # "idle"
         /\ req[p].endpoint = "comp"
         /\ ContainsAnyCase(SUBMIT_REPORT, StripQuotes(req[p].soap_action))
         /\ req[p].body = req[p].plain)
            => /\ pc[p] \in InSubmit
               /\ loc[p].raw_report =
                    IF "bin" \in req[p].defaulted THEN <<>> ELSE req[p].raw_report
               /\ (pc[p] = "done" /\ loc[p].error = None)
                    => resp[p] = Ok(SubmitReportResponse_success)

\* a well-formed request whose SOAPAction and operation name match no
\* operation of its endpoint
IsUnknownOperation(r) ==
    LET soap_action == StripQuotes(r.soap_action)
    IN  /\ r.wellformed
        /\ IF r.endpoint = "auth"
           THEN /\ ~Contains(LOGIN_REMOTE_AUTH, soap_action)
                /\ r.opname # LOGIN_REMOTE_AUTH
           ELSE /\ ~Contains(SUBMIT_REPORT, soap_action)
                /\ ~Contains(CREATE_SESSION, soap_action)
                /\ ~Contains(SET_REPORT_INTENTION, soap_action)
                /\ r.opname \notin {CREATE_SESSION, SET_REPORT_INTENTION, SUBMIT_REPORT}

\* C17: a well-formed request for an operation that is not recognized is
\* answered at once, on the auth and on the competition endpoint, by a
\* success response with the normal status that is no fault; it enters no
\* handler, and the step that answers it changes no certificate, session or
\* stored result.
C17_UnknownOperation ==
    /\ [](\A p \in Procs :
            (pc[p] # "idle" /\ IsUnknownOperation(req[p]))
                => /\ pc[p] = "done"
                   /\ resp[p].status = 200
                   /\ resp[p].tag # "Fault"
                   /\ resp[p].result = "Success"
                   /\ resp[p] = Ok(IF req[p].endpoint = "auth"
                                   THEN LoginRemoteAuthResponse("Success")
                                   ELSE SubmitReportResponse_success))
    /\ [][\A p \in Procs :
            (/\ started' # started
             /\ IsUnknownOperation(req'[p])
             /\ (req'[p] # req[p] \/ pc'[p] # pc[p]))
                => /\ certs' = certs
                   /\ sessions' = sessions
                   /\ reports' = reports
                   /\ dbOpen' = dbOpen]_vars

\* with a session made and a certificate handed out or not, an unknown
\* operation has been answered on each endpoint
C17_Witness ==
    \E p, q \in Procs :
        /\ pc[p] = "done" /\ pc[q] = "done"
        /\ IsUnknownOperation(req[p]) /\ IsUnknownOperation(req[q])
        /\ req[p].endpoint = "auth" /\ req[q].endpoint = "comp"
        /\ resp[p] = Ok(LoginRemoteAuthResponse("Success"))
        /\ resp[q] = Ok(SubmitReportResponse_success)
        /\ Len(sessions) = 1

\* the request is parsed as XML on its endpoint
OnXmlPath(w) == w.endpoint = "auth" \/ ~IsSubmitRequest(w)

\* the errors of the input of a request
BadGzip(w) ==
    w.endpoint = "comp" /\ w.body # w.plain /\ w.body # gzip_compress(w.plain)

NotUtf8(w) ==
    /\ OnXmlPath(w)
    /\ ~BadGzip(w)
    /\ ~IsUtf8(IF w.endpoint = "auth" THEN w.body ELSE w.plain)

Malformed(w) == OnXmlPath(w) /\ ~BadGzip(w) /\ ~NotUtf8(w) /\ ~w.wellformed

BadProfileId(w) ==
    /\ OnXmlPath(w) /\ ~BadGzip(w) /\ ~NotUtf8(w) /\ w.wellformed
    /\ IF w.endpoint = "auth"
       THEN /\ Contains(LOGIN_REMOTE_AUTH, StripQuotes(w.soap_action))
                \/ w.opname = LOGIN_REMOTE_AUTH
            /\ w.topPid # <<>> /\ ~IsIntText(w.topPid)
       ELSE /\ \/ Contains(CREATE_SESSION, StripQuotes(w.soap_action))
               \/ Contains(SET_REPORT_INTENTION, StripQuotes(w.soap_action))
               \/ w.opname \in {CREATE_SESSION, SET_REPORT_INTENTION}
            /\ w.hasCert /\ w.certPid # <<>> /\ ~IsIntText(w.certPid)

InputError(w) ==
    IF BadGzip(w) THEN "BadGzipFile"
    ELSE IF NotUtf8(w) THEN "UnicodeDecodeError"
    ELSE IF Malformed(w) THEN "MalformedXml"
    ELSE IF BadProfileId(w) THEN "ValueError"
    ELSE None

\* C18: a request during whose handling an error is raised that no handler
\* catches (a gzip body that does not decompress, a body parsed as XML that
\* is not UTF-8 or not an envelope, a profile id that is no integer, a
\* failure of storage) is answered by the fault that carries the message of
\* the error, with status 500; every request that has ended has exactly one
\* response, none while it is in flight; and a fault answers only an error.
C18_ErrorsBecomeFaults ==
    /\ [](\A p \in Procs :
            (pc[p] = "done" /\ InputError(req[p]) # None)
                => resp[p] = [NoResp EXCEPT !.status = 500, !.tag = "Fault",
                                            !.faultstring = InputError(req[p])])
    /\ [](\A p \in Procs :
            (pc[p] = "done" /\ loc[p].error # None)
                => resp[p] = [NoResp EXCEPT !.status = 500, !.tag = "Fault",
                                            !.faultstring = loc[p].error])
    /\ [](\A p \in Procs :
            /\ pc[p] = "done" => resp[p] # NoResp /\ resp[p].status \in {200, 500}
            /\ pc[p] # "done" => resp[p] = NoResp
            /\ InputError(req[p]) # None => pc[p] = "done"
            /\ (pc[p] = "done" /\ InputError(req[p]) = None /\ loc[p].error = None)
                => resp[p].tag # "Fault" /\ resp[p].status = 200)
    /\ [][\A p \in Procs :
            (pc[p] = "done" /\ started' = started) => resp'[p] = resp[p]]_vars

\* storage has failed while the session of a stored report was being
\* completed, and the request was answered by the fault
C18_Witness ==
    \E p \in Procs :
        /\ pc[p] = "done"
        /\ IsSubmitRequest(req[p])
        /\ loc[p].error = "StorageError"
        /\ RowOf(p) \in reports
        /\ "Completed" \notin StatesOf(sessions, loc[p].csid)
        /\ Resolves(sessions, loc[p].csid)
        /\ resp[p].tag = "Fault" /\ resp[p].status = 500

\* the ids of a sequence
IdsOf(ids) == {ids[i] : i \in DOMAIN ids}

\* report_data d holds the players in two id lists by their is_winner flag:
\* the k-th winner id is the id of the k-th player with the flag, likewise
\* the losers, and no player is left out or counted twice
PartitionedOnWinner(d) ==
    LET won  == {i \in DOMAIN d.players : d.players[i].is_winner}
        lost == DOMAIN d.players \ won
        Nth(S, i) == Cardinality({j \in S : j <= i})
    IN  /\ Len(d.players) = d.player_count
        /\ Len(d.winner_ids) = Cardinality(won)
        /\ Len(d.loser_ids) = Cardinality(lost)
        /\ \A i \in won : d.winner_ids[Nth(won, i)] = d.players[i].persona_id
        /\ \A i \in lost : d.loser_ids[Nth(lost, i)] = d.players[i].persona_id
        /\ IdsOf(d.winner_ids) \cup IdsOf(d.loser_ids)
              = {d.players[i].persona_id : i \in DOMAIN d.players}
        /\ (\A i, j \in DOMAIN d.players :
                i # j => d.players[i].persona_id # d.players[j].persona_id)
              => IdsOf(d.winner_ids) \cap IdsOf(d.loser_ids) = {}

\* the reports that decode
WellFormedReports == GeneratedReports \cup {RawGoodA, RawGoodB}

C20_EitherPlace ==
    \A p \in Procs :
        (/\ pc[p] \in {"cs_ret", "done"}
         /\ Handler(req[p]) = "cs_open"
         /\ loc[p].comp_session # 0)
            => sessions[loc[p].comp_session].profile_id =
                  IF req[p].hasCert /\ req[p].certPid # <<>>
                  THEN ParseInt(req[p].certPid)
                  ELSE IF req[p].topPid # <<>> THEN ParseInt(req[p].topPid)
                  ELSE 0

\* C21 as claimed: the three steps are taken in order for each csid: a
\* session becomes IntentionSet only from Created, by the set_report_intention
\* step of a SetReportIntention call for its csid, and becomes Completed only
\* from IntentionSet, so that a SubmitReport for a session still in Created
\* leaves it in Created.
C21_ThreeStepOrder ==
    [][\A i \in DOMAIN sessions :
          /\ (sessions'[i].state = "IntentionSet" /\ sessions[i].state # "IntentionSet")
                => /\ sessions[i].state = "Created"
                   /\ \E p \in Procs :
                         /\ Steps(p, "sri_set", "sri_ret")
                         /\ IsIntentionRequest(req[p])
                         /\ loc[p].csid = sessions[i].csid
          /\ (sessions'[i].state = "Completed" /\ sessions[i].state # "Completed")
                => sessions[i].state = "IntentionSet"]_vars

\* the keys of a report_data that is filled
ReportFields ==
    {"game_type", "map_path", "replay_guid", "is_auto_match", "player_count",
     "players", "winner_ids", "loser_ids"}

\* report_data d is empty, or holds every field with as many players as
\* its player_count and every player in one of the two id lists
AllOrNothing(d) ==
    \/ d = EmptyDict
    \/ /\ DOMAIN d = ReportFields
       /\ d.player_count = Len(d.players)
       /\ Len(d.winner_ids) + Len(d.loser_ids) = Len(d.players)
       /\ \A i \in DOMAIN d.players :
             DOMAIN d.players[i] = {"persona_id", "faction", "is_winner"}

\* C22: the report_data of a SubmitReport call, and of every stored row, is
\* all or nothing; it is empty when the report is empty, shorter than the
\* header of MIN_HEADER bytes, or ends before the players and strings its
\* header announces, and it is the row the call stores.
C22_AllOrNothing ==
    /\ [](\A p \in Procs :
            (pc[p] # "idle" /\ IsSubmitRequest(req[p]))
                => LET raw == req[p].raw_report
                       d   == loc[p].report_data
                   IN  /\ AllOrNothing(d)
                       /\ Len(raw) < MIN_HEADER => d = EmptyDict
                       /\ (Len(raw) >= MIN_HEADER
                              /\ Len(raw) < MIN_HEADER + PLAYER_SIZE * U16(raw, 8) + 2)
                            => d = EmptyDict)
    /\ [](\A row \in reports : AllOrNothing(row.report_data))
    /\ [][\A p \in Procs :
            Steps(p, "sr_submit", "sr_complete")
                => /\ RowOf(p) \in reports'
                   /\ loc'[p].report_data = loc[p].report_data]_vars

\* a report shorter than the header has been stored with an empty
\* report_data and the call has returned
C22_Witness ==
    \E p \in Procs :
        /\ pc[p] = "done"
        /\ IsSubmitRequest(req[p])
        /\ Len(req[p].raw_report) \in 1..(MIN_HEADER - 1)
        /\ loc[p].report_data = EmptyDict
        /\ RowOf(p) \in reports

\* the stored results of a csid
RowsOf(table, csid) == {row \in table : row.csid = csid}

\* C23: within a SubmitReport call the report is stored before the session
\* is marked complete: the step that completes a session is taken by a call
\* whose csid has a stored row; a call whose storing fails changes neither
\* the sessions nor the stored results and is answered by a fault with
\* status 500; and in every state, also between the two storage calls of
\* concurrent submissions, every Completed session has a stored row.
C23_StoredBeforeCompleted ==
    /\ [](\A i \in DOMAIN sessions :
            sessions[i].state = "Completed" => RowsOf(reports, sessions[i].csid) # {})
    /\ [](\A p \in Procs :
            pc[p] \in {"sr_complete", "sr_ret"} => RowsOf(reports, loc[p].csid) # {})
    /\ [][\A i \in DOMAIN sessions :
            (sessions'[i].state = "Completed" /\ sessions[i].state # "Completed")
                => \E p \in Procs :
                      /\ Steps(p, "sr_complete", "sr_ret")
                      /\ loc[p].csid = sessions[i].csid
                      /\ RowsOf(reports, loc[p].csid) # {}]_vars
    /\ [][\A p \in Procs :
            Steps(p, "sr_submit", "done")
                => /\ sessions' = sessions
                   /\ reports' = reports
                   /\ resp'[p].tag = "Fault"
                   /\ resp'[p].status = 500]_vars

\* storage has failed in a SubmitReport call before its report was stored,
\* while another call was between its two storage calls for the same
\* session: the first is answered by the fault, the session is not Completed
C23_Witness ==
    \E p, q \in Procs :
        /\ pc[p] = "done"
        /\ IsSubmitRequest(req[p])
        /\ loc[p].error = "StorageError"
        /\ RowOf(p) \notin reports
        /\ resp[p].tag = "Fault" /\ resp[p].status = 500
        /\ pc[q] = "sr_complete"
        /\ loc[q].csid = loc[p].csid
        /\ StatesOf(sessions, loc[p].csid) = {"Created"}

\* the positions of a handler inside its try block: a storage session is open
InTry ==
    CallSites \cup {"la_ret", "cs_ret", "sri_ret", "sr_ret"}

\* C24: a handler holds a storage session exactly while it is inside its try
\* block and never more than one; the step by which a handler returns, with
\* its response or with an exception, leaves it with none; a session is
\* opened only by the first step of a handler; and when no request is in
\* flight no storage session is open.
C24_SessionsClosed ==
    /\ [](\A p \in Procs :
            /\ dbOpen[p] \in {0, 1}
            /\ dbOpen[p] = 1 <=> pc[p] \in InTry)
    /\ []((\A p \in Procs : pc[p] \in {"idle", "done"})
            => \A p \in Procs : dbOpen[p] = 0)
    /\ [][\A p \in Procs :
            /\ (pc[p] \notin {"idle", "done"} /\ pc'[p] = "done") => dbOpen'[p] = 0
            /\ dbOpen'[p] > dbOpen[p]
                 => /\ pc[p] \in {"la_open", "cs_open", "sri_open", "sr_open"}
                    /\ pc'[p] \in CallSites
                    /\ dbOpen[p] = 0]_vars

\* the only request so far was a SubmitReport that raised after it had
\* stored its report, inside the try block; no storage session is open
C24_Witness ==
    \E p \in Procs :
        /\ started = 1
        /\ pc[p] = "done"
        /\ IsSubmitRequest(req[p])
        /\ loc[p].error = "StorageError"
        /\ RowOf(p) \in reports
        /\ resp[p].tag = "Fault"
        /\ \A q \in Procs : dbOpen[q] = 0

\* the bytes of a body built from its parts that come before the marker
Preamble(w) ==
    SubSeq(w.plain, 1, Len(w.plain) - Len(bin_marker) - Len(w.raw_report))

\* C25: the csid, ccid and profile id framed from a SubmitReport body whose
\* preamble holds the three tag pairs are those framed from the same
\* preamble followed by the marker and any other payload: an empty one, a
\* report, a payload that holds the marker again, and payloads that hold a
\* csid tag pair or all three tag pairs with other values.
C25_PayloadIndependent ==
    \A p \in Procs :
        (PlainSubmit(p) /\ req[p].defaulted = {})
            => LET hostile == CsidElement(Bytes(CsidChars(2)))
                                \o CcidElement(Bytes(CcidChars(2)))
                                \o ProfileidElement(Bytes(<<"7">>))
                                \o bin_marker \o <<9>>
                   payloads == {RawEmpty, RawShort, RawGoodA, RawMarker, RawTags,
                                hostile}
               IN  \A raw \in payloads :
                      LET other == extract_submit_report_data(
                                      Preamble(req[p]) \o bin_marker \o raw)
                      IN  /\ other.csid = loc[p].csid
                          /\ other.ccid = loc[p].ccid
                          /\ other.profile_id = loc[p].profile_id
                          /\ other.raw_report = raw

\* a body whose payload holds a csid tag pair of another session has been
\* framed: the csid is that of the preamble, the payload is the report
C25_Witness ==
    \E p \in Procs :
        /\ PlainSubmit(p)
        /\ req[p].defaulted = {}
        /\ req[p].raw_report = RawTags
        /\ loc[p].raw_report = RawTags
        /\ loc[p].csid = CsidText(1)
        /\ loc[p].ccid = CcidText(1)
        /\ loc[p].profile_id = 42

=============================================================================
